---------------------------- MODULE Spec2Model ----------------------------
(***************************************************************************)
(* A model of the a2a-inspector backend (src/backend/app.py, with the      *)
(* older src/tools/inspector/app.py and the validators of                  *)
(* src/tools/inspector/validators.py): the per-connection session table    *)
(* `clients`, the socket.io handlers that create, use and drop a session,  *)
(* and the response processing that validates a result payload and derives *)
(* its final message.                                                      *)
(*                                                                         *)
(* Python values are modelled as follows.  A dict is a TLA+ function whose *)
(* domain is its set of keys, so that `k in d` is k \in DOMAIN d and a     *)
(* missing key is really missing.  A list is a sequence.  A str that the   *)
(* code inspects is a sequence of the characters "a" and "*"; a literal of  *)
(* the code is a one-element sequence holding the literal.  None is the    *)
(* text NoneText.  Where the code tests or depends on the type of a value,  *)
(* a value that is not a dict is a record holding its `pytype` (and, for a *)
(* str or a list, its content `val`).                                      *)
(*                                                                         *)
(* The handlers are coroutines of one asyncio loop.  A handler runs        *)
(* without interruption from one network await to the next (the            *)
(* descriptor fetch, the unary call, each item of a stream); sio.emit puts *)
(* the packet on an unbounded queue and does not yield.  Each action below *)
(* is one such uninterrupted segment.  One connection id is modelled: the  *)
(* handlers touch no state but the entry of their own sid.                 *)
(***************************************************************************)
EXTENDS Naturals, Sequences, FiniteSets, TLC

VARIABLES
    clients,      \* app.py:50   sid -> session (httpx_client, a2a_client, card); no key: no session
    handles,      \* the httpx.AsyncClient objects created so far: owner and number of aclose() calls
    tasks,        \* the handler coroutines started so far: locals, position, what each emitted
    calls,        \* every remote call issued on an A2AClient so far, in order, with the
                  \* card of the session it was issued for, whether its client was closed
                  \* and how many events its handler had emitted before it
    terminated,   \* sid -> the disconnect handler has run
    penv,         \* (response processing alone) the envelope handed to _process_a2a_response
    preq,         \* (response processing alone) the request id handed to it
    pout,         \* (response processing alone) what it emitted
    vfun,         \* (validation alone) the validator that is called
    vdata,        \* (validation alone) the decoded payload handed to it
    vout          \* (validation alone) what the call produced: a list of defects or an exception

vars == <<clients, handles, tasks, calls, terminated, penv, preq, pout, vfun, vdata, vout>>

bridgeVars == <<clients, handles, tasks, calls, terminated>>
processVars == <<penv, preq, pout>>
validateVars == <<vfun, vdata, vout>>

-----------------------------------------------------------------------------
(* Bounds *)

\* handler invocations (initialize_client and send_message events) per run
MaxEvents == 3
\* results (unary results and stream items) the remote agents deliver per run
MaxResults == 2
\* entries of a task's history list
MaxHist == 2

-----------------------------------------------------------------------------
(* Python values *)

EmptyDict == [k \in {} |-> k]
NoneText == <<"None">>

Has(d, k) == k \in DOMAIN d

\* bool(x) of a str-or-None
Truthy(t) == t # NoneText /\ Len(t) > 0

\* '**' in text
HasBold(t) == \E i \in 1..(Len(t) - 1) : t[i] = "*" /\ t[i + 1] = "*"

RECURSIVE Reversed(_)
Reversed(s) == IF s = <<>> THEN <<>> ELSE Append(Reversed(Tail(s)), Head(s))

Sids == {"s1"}

\* d.get(k, default)
Get(d, k, default) == IF Has(d, k) THEN d[k] ELSE default

\* d[k] = v
SetKey(d, k, v) == (k :> v) @@ d

\* values by type: a str, a list, an int, None
PyStr(chars) == [pytype |-> "str", val |-> chars]
PyList(items) == [pytype |-> "list", val |-> items]
PyInt == [pytype |-> "int"]
PyNone == [pytype |-> "NoneType"]

\* isinstance(v, ty)
IsInstance(v, ty) == IF Has(v, "pytype") THEN v.pytype = ty ELSE ty = "dict"

\* `k in v` raises TypeError: v is neither a mapping nor a str nor a list
NotContainer(v) == Has(v, "pytype") /\ v.pytype \in {"int", "NoneType"}

\* `k in v` for a dict (key), a str (substring, over the tokens of the str) or a
\* list (item)
In(k, v) ==
    IF Has(v, "pytype")
        THEN v.pytype \in {"str", "list"} /\ \E i \in DOMAIN v.val : v.val[i] = k
        ELSE Has(v, k)

\* s.startswith(prefix)
StartsWith(s, prefix) == Len(s) >= Len(prefix) /\ SubSeq(s, 1, Len(prefix)) = prefix

\* what a call that raised produced
TypeError == <<"<TypeError>">>
AttributeError == <<"<AttributeError>">>

-----------------------------------------------------------------------------
(* Validation: src/tools/inspector/validators.py *)

\* variant refuted by C14: the list lacks 'skills'
required_fields_without_skills ==
    << "name", "description", "url", "version", "capabilities",
       "defaultInputModes", "defaultOutputModes" >>

\* Required fields of the card (lines 5-8)
required_fields ==
    << "name", "description", "url", "version", "capabilities",
       "defaultInputModes", "defaultOutputModes", "skills" >>

\* the loop of lines 11-13 over `fields`
RECURSIVE MissingFields(_, _)
MissingFields(card_data, fields) ==
    IF fields = <<>> THEN <<>>
    ELSE (IF ~Has(card_data, Head(fields))
            THEN << "Required field is missing: '" \o Head(fields) \o "'." >>
            ELSE <<>>)
         \o MissingFields(card_data, Tail(fields))

Http == << "h", "t", "t", "p", ":", "/", "/" >>
Https == << "h", "t", "t", "p", "s", ":", "/", "/" >>

\* card_data['url'].startswith raises: only a str has the method called with a str
UrlRaises(card_data) == Has(card_data, "url") /\ ~IsInstance(card_data.url, "str")

\* lines 16-17
UrlCheck(card_data) ==
    IF /\ Has(card_data, "url")
       /\ ~(StartsWith(card_data.url.val, Http) \/ StartsWith(card_data.url.val, Https))
        THEN <<"Field 'url' must be an absolute URL starting with http:// or https://.">>
        ELSE <<>>

\* lines 20-21
CapabilitiesCheck(card_data) ==
    IF Has(card_data, "capabilities") /\ ~IsInstance(card_data.capabilities, "dict")
        THEN <<"Field 'capabilities' must be an object.">>
        ELSE <<>>

\* the body of the loop of lines 24-29 for one field
ModesCheck(card_data, field) ==
    IF ~Has(card_data, field) THEN <<>>
    ELSE IF ~IsInstance(card_data[field], "list")
        THEN << "Field '" \o field \o "' must be an array of strings." >>
    ELSE IF ~(\A i \in DOMAIN card_data[field].val :
                IsInstance(card_data[field].val[i], "str"))
        THEN << "All items in '" \o field \o "' must be strings." >>
    ELSE <<>>

\* lines 32-36
SkillsCheck(card_data) ==
    IF ~Has(card_data, "skills") THEN <<>>
    ELSE IF ~IsInstance(card_data.skills, "list")
        THEN <<"Field 'skills' must be an array of AgentSkill objects.">>
    ELSE IF Len(card_data.skills.val) = 0
        THEN <<"Field 'skills' array is empty. Agent must have at least one skill if it performs actions.">>
    ELSE <<>>

validate_agent_card(card_data) ==
    IF UrlRaises(card_data) THEN AttributeError
    ELSE MissingFields(card_data, required_fields)
         \o UrlCheck(card_data)
         \o CapabilitiesCheck(card_data)
         \o ModesCheck(card_data, "defaultInputModes")
         \o ModesCheck(card_data, "defaultOutputModes")
         \o SkillsCheck(card_data)

\* 'status' not in data or 'state' not in data['status']
NoStatusState(data) == ~Has(data, "status") \/ ~In("state", data.status)

\* `'state' not in data['status']` raises TypeError
StatusRaises(data) == Has(data, "status") /\ NotContainer(data.status)

\* 'parts' not in d or not isinstance(d['parts'], list) or not d['parts']
\* (what is held under 'parts' is a list)
NoParts(d) == ~In("parts", d) \/ Len(d.parts) = 0

\* `'parts' not in data['artifact']` raises TypeError, or data['artifact']['parts']
\* does (a str or a list is indexed by a str)
ArtifactRaises(data) ==
    /\ Has(data, "artifact")
    /\ \/ NotContainer(data.artifact)
       \/ Has(data.artifact, "pytype") /\ In("parts", data.artifact)

_validate_task(data) ==
    IF StatusRaises(data) THEN TypeError
    ELSE (IF ~Has(data, "id")
            THEN <<"Task object missing required field: 'id'.">> ELSE <<>>)
         \o (IF NoStatusState(data)
            THEN <<"Task object missing required field: 'status.state'.">> ELSE <<>>)

_validate_status_update(data) ==
    IF StatusRaises(data) THEN TypeError
    ELSE IF NoStatusState(data)
        THEN <<"StatusUpdate object missing required field: 'status.state'.">>
        ELSE <<>>

_validate_artifact_update(data) ==
    IF ~Has(data, "artifact")
        THEN <<"ArtifactUpdate object missing required field: 'artifact'.">>
    ELSE IF ArtifactRaises(data) THEN TypeError
    ELSE IF NoParts(data.artifact)
        THEN <<"Artifact object must have a non-empty 'parts' array.">>
        ELSE <<>>

_validate_message(data) ==
    (IF NoParts(data)
        THEN <<"Message object must have a non-empty 'parts' array.">> ELSE <<>>)
    \o (IF ~Has(data, "role") \/ data.role # "agent"
        THEN <<"Message from agent must have 'role' set to 'agent'.">> ELSE <<>>)

\* variant refuted by C15: a kind that is none of the four is validated as a message
validate_message_unknown_as_message(data) ==
    IF ~Has(data, "kind")
        THEN <<"Response from agent is missing required 'kind' field.">>
        ELSE CASE data.kind = "task" -> _validate_task(data)
               [] data.kind = "status-update" -> _validate_status_update(data)
               [] data.kind = "artifact-update" -> _validate_artifact_update(data)
               [] OTHER -> _validate_message(data)

validate_message(data) ==
    IF ~Has(data, "kind")
        THEN <<"Response from agent is missing required 'kind' field.">>
        ELSE CASE data.kind = "task" -> _validate_task(data)
               [] data.kind = "status-update" -> _validate_status_update(data)
               [] data.kind = "artifact-update" -> _validate_artifact_update(data)
               [] data.kind = "message" -> _validate_message(data)
               [] OTHER -> <<"Unknown message kind received: '" \o data.kind \o "'.">>

-----------------------------------------------------------------------------
(* The final message: src/backend/app.py, _process_a2a_response, lines 91-137 *)

FailedFallback == <<"Task failed with an unknown error.">>

\* status_info['message']['parts'][0]['text'] raises neither KeyError nor IndexError
FailedTextPresent(status_info) ==
    /\ Has(status_info, "message")
    /\ Has(status_info.message, "parts")
    /\ Len(status_info.message.parts) > 0
    /\ Has(status_info.message.parts[1], "text")

\* variant refuted by C9: the except branch passes instead of setting the fallback
FailedStatusRuleNoFallback(response_data) ==
    LET status_info == Get(response_data, "status", EmptyDict)
    IN  IF /\ Has(status_info, "state") /\ status_info.state = "failed"
           /\ FailedTextPresent(status_info)
            THEN status_info.message.parts[1].text
            ELSE NoneText

\* Priority 1 (lines 95-100)
FailedStatusRule(response_data) ==
    LET status_info == Get(response_data, "status", EmptyDict)
    IN  IF Has(status_info, "state") /\ status_info.state = "failed"
            THEN IF FailedTextPresent(status_info)
                    THEN status_info.message.parts[1].text
                    ELSE FailedFallback
            ELSE NoneText

\* Priority 2 (lines 104-112)
ArtifactRule(response_data, final) ==
    IF Truthy(final) THEN final
    ELSE LET artifacts == Get(response_data, "artifacts", <<>>)
         IN  IF /\ Len(artifacts) > 0
                /\ Has(artifacts[1], "parts")
                /\ Len(artifacts[1].parts) > 0
                /\ Has(artifacts[1].parts[1], "text")
                /\ Truthy(artifacts[1].parts[1].text)
                THEN artifacts[1].parts[1].text
                ELSE final

\* message.get('role') == 'agent' and parts and parts[0].get('kind') == 'text'
AgentTextEntry(message) ==
    /\ Has(message, "role") /\ message.role = "agent"
    /\ Has(message, "parts") /\ Len(message.parts) > 0
    /\ Has(message.parts[1], "kind") /\ message.parts[1].kind = "text"

\* parts[0].get('text', '')
EntryText(message) == Get(message.parts[1], "text", <<>>)

\* the loop of lines 117-124 over an already reversed history
RECURSIVE ScanBold(_, _)
ScanBold(h, final) ==
    IF h = <<>> THEN final
    ELSE IF AgentTextEntry(Head(h)) /\ HasBold(EntryText(Head(h)))
            THEN EntryText(Head(h))
            ELSE ScanBold(Tail(h), final)

\* the loop of lines 128-133 over an already reversed history
RECURSIVE ScanLast(_, _)
ScanLast(h, final) ==
    IF h = <<>> THEN final
    ELSE IF AgentTextEntry(Head(h)) /\ Truthy(EntryText(Head(h)))
            THEN EntryText(Head(h))
            ELSE ScanLast(Tail(h), final)

HistoryGuard(response_data, final) ==
    /\ ~Truthy(final)
    /\ Has(response_data, "kind") /\ response_data.kind = "task"
    /\ Has(response_data, "history")

\* variant refuted by C11: the history is searched oldest entry first
BoldHistoryRuleOldestFirst(response_data, final) ==
    IF HistoryGuard(response_data, final)
        THEN ScanBold(response_data.history, final)
        ELSE final

\* Priority 3 (lines 116-124)
BoldHistoryRule(response_data, final) ==
    IF HistoryGuard(response_data, final)
        THEN ScanBold(Reversed(response_data.history), final)
        ELSE final

\* Priority 4 (lines 127-133)
LastAgentRule(response_data, final) ==
    IF HistoryGuard(response_data, final)
        THEN ScanLast(Reversed(response_data.history), final)
        ELSE final

\* variant refuted by C10: the history is searched before the artifacts
FinalMessageHistoryFirst(response_data) ==
    ArtifactRule(response_data,
        LastAgentRule(response_data,
            BoldHistoryRule(response_data,
                FailedStatusRule(response_data))))

\* final_message_to_display at line 135
FinalMessage(response_data) ==
    LastAgentRule(response_data,
        BoldHistoryRule(response_data,
            ArtifactRule(response_data,
                FailedStatusRule(response_data))))

-----------------------------------------------------------------------------
(* Emitted events.  `to` is the sid; `body` is the dict that is sent. *)

Emit(event, sid, body) == [event |-> event, to |-> sid, body |-> body]

\* _emit_debug_log (lines 57-63)
_emit_debug_log(sid, event_id, log_type, data) ==
    Emit("debug_log", sid, [type |-> log_type, data |-> data, id |-> event_id])

IsErrorEnvelope(result) == Has(result, "error")

\* variant refuted by C6: an error envelope is logged and not answered
ProcessErrorLogOnly(result, sid, request_id) ==
    << _emit_debug_log(sid, request_id, "error", result.error) >>

\* variant refuted by C7: error_data.get('message') without the fallback
ProcessErrorNoFallback(result, sid, request_id) ==
    << _emit_debug_log(sid, request_id, "error", result.error),
       Emit("agent_response", sid,
            [error |-> Get(result.error, "message", NoneText), id |-> request_id]) >>

\* the error branch (lines 75-83)
ProcessError(result, sid, request_id) ==
    LET error_data == result.error
    IN  << _emit_debug_log(sid, request_id, "error", error_data),
           Emit("agent_response", sid,
                [error |-> Get(error_data, "message", <<"Unknown error">>),
                 id |-> request_id]) >>

\* variant refuted by C21: the response always goes under the id of the request
ResponseDataUnderRequestId(event, request_id) ==
    LET with_id == SetKey(event, "id", request_id)
        final == FinalMessage(with_id)
        with_final == IF Truthy(final)
                        THEN SetKey(with_id, "final_message", final)
                        ELSE with_id
    IN  SetKey(with_final, "validation_errors", validate_message(with_final))

\* variant refuted by C22: the payload is validated before the id is written
ResponseDataValidatedFirst(event, request_id) ==
    LET validation_errors == validate_message(event)
        response_id == Get(event, "id", request_id)
        with_id == SetKey(event, "id", response_id)
        final == FinalMessage(with_id)
        with_final == IF Truthy(final)
                        THEN SetKey(with_id, "final_message", final)
                        ELSE with_id
    IN  SetKey(with_final, "validation_errors", validation_errors)

\* response_data at line 140 (an event has the attribute `id` exactly when its
\* dump has the key)
ResponseData(event, request_id) ==
    LET response_id == Get(event, "id", request_id)
        with_id == SetKey(event, "id", response_id)
        final == FinalMessage(with_id)
        with_final == IF Truthy(final)
                        THEN SetKey(with_id, "final_message", final)
                        ELSE with_id
    IN  SetKey(with_final, "validation_errors", validate_message(with_final))

\* variant refuted by C13: a payload with defects is answered by an error
ProcessSuccessRejectsDefects(result, sid, request_id) ==
    LET response_data == ResponseData(result.result, request_id)
    IN  << _emit_debug_log(sid, response_data.id, "response", response_data),
           IF response_data.validation_errors = <<>>
               THEN Emit("agent_response", sid, response_data)
               ELSE Emit("agent_response", sid,
                         [error |-> <<"Invalid response">>, id |-> response_data.id]) >>

\* variant refuted by C18: the response is emitted before its debug log
ProcessSuccessAnswersFirst(result, sid, request_id) ==
    LET response_data == ResponseData(result.result, request_id)
    IN  << Emit("agent_response", sid, response_data),
           _emit_debug_log(sid, response_data.id, "response", response_data) >>

\* the success branch (lines 85-143)
ProcessSuccess(result, sid, request_id) ==
    LET response_data == ResponseData(result.result, request_id)
    IN  << _emit_debug_log(sid, response_data.id, "response", response_data),
           Emit("agent_response", sid, response_data) >>

\* _process_a2a_response (lines 66-143): the events it emits, in order
_process_a2a_response(result, sid, request_id) ==
    IF IsErrorEnvelope(result)
        THEN ProcessError(result, sid, request_id)
        ELSE ProcessSuccess(result, sid, request_id)


-----------------------------------------------------------------------------
(* The envelopes the a2a client can hand back: dumps of the a2a.types      *)
(* models (Task, Message, TaskStatusUpdateEvent, TaskArtifactUpdateEvent,  *)
(* JSONRPCError) with exclude_none, so an optional field is either a value *)
(* of its type or missing.                                                 *)

Texts == { <<>>, <<"a">>, <<"*", "*">>, <<"*", "a", "*">>, <<"*", "*", "a">> }

TextPart(t) == [kind |-> "text", text |-> t]
FilePart == [kind |-> "file", file |-> "f"]
Parts == { TextPart(t) : t \in Texts } \cup { FilePart }

PartLists == { <<>> } \cup { <<p>> : p \in Parts }
                \cup { << FilePart, TextPart(<<"a">>) >> }

MessageOf(role, parts) ==
    [kind |-> "message", messageId |-> "m1", role |-> role, parts |-> parts]

AgentMessages == { MessageOf("agent", pl) : pl \in PartLists }
HistoryEntries == AgentMessages \cup { MessageOf("user", << TextPart(<<"*", "*">>) >>) }

TaskStates == { "failed", "completed" }
Statuses == { [state |-> st] : st \in TaskStates }
            \cup { [state |-> st, message |-> m] : st \in TaskStates, m \in AgentMessages }

ArtifactOf(parts) == [artifactId |-> "a1", parts |-> parts]
ArtifactLists == { <<>> } \cup { << ArtifactOf(pl) >> : pl \in PartLists }
                    \cup { << ArtifactOf(<<>>), ArtifactOf(<< TextPart(<<"a">>) >>) >> }

SeqsUpTo(S, n) == UNION { [1..k -> S] : k \in 0..n }
Histories == SeqsUpTo(HistoryEntries, MaxHist)

\* an optional key of a dump
Opt(k, S) == { EmptyDict } \cup { k :> v : v \in S }

TaskPayloads == { [kind |-> "task", id |-> "t1", status |-> st] @@ a @@ h :
             st \in Statuses, a \in Opt("artifacts", ArtifactLists),
             h \in Opt("history", Histories) }

StatusUpdates == { [kind |-> "status-update", taskId |-> "t1", status |-> st] :
                     st \in Statuses }

ArtifactUpdates == { [kind |-> "artifact-update", taskId |-> "t1", artifact |-> ArtifactOf(pl)] :
                       pl \in PartLists }

Messages == { MessageOf(r, pl) : r \in {"agent", "user"}, pl \in PartLists }

\* task events of a type without an `id` attribute, which line 87 provides for
IdlessTasks == { [kind |-> "task", status |-> st] : st \in Statuses }

ResultPayloads ==
    TaskPayloads \cup IdlessTasks \cup StatusUpdates \cup ArtifactUpdates \cup Messages

ErrorDatas == { [code |-> "-32000", message |-> <<"a">>], [code |-> "-32000"] }

Envelopes == { [result |-> r] : r \in ResultPayloads }
                \cup { [error |-> e] : e \in ErrorDatas }

RequestIds == { "c1" }

-----------------------------------------------------------------------------
(* The decoded payloads the validators can be handed: any JSON object, so a  *)
(* field may be missing or hold a value of another type than the schema's.  *)

\* vout before the call
NotCalled == <<"<not called>">>

UrlValues ==
    { PyStr(Http \o <<"a">>), PyStr(Https \o <<"a">>),
      PyStr(<<"f", "t", "p", ":", "/", "/", "a">>), PyInt }

ModesValues ==
    { PyList(<< PyStr(<<"t">>) >>), PyList(<< PyStr(<<"t">>), PyInt >>), PyStr(<<"t">>) }

SkillsValues == { PyList(<<>>), PyList(<< [id |-> "s"] >>), PyStr(<<"s">>) }

CardDatas ==
    { n @@ d @@ u @@ v @@ c @@ i @@ o @@ k :
        n \in Opt("name", { PyStr(<<"n">>) }),
        d \in Opt("description", { PyStr(<<"d">>) }),
        u \in Opt("url", UrlValues),
        v \in Opt("version", { PyStr(<<"1">>) }),
        c \in Opt("capabilities", { EmptyDict, PyStr(<<"c">>) }),
        i \in Opt("defaultInputModes", ModesValues),
        o \in Opt("defaultOutputModes", ModesValues),
        k \in Opt("skills", SkillsValues) }

KindValues == { "task", "status-update", "artifact-update", "message", "bogus" }

StatusValues ==
    { [state |-> "failed"], EmptyDict, PyInt, PyNone,
      PyStr(<<"a">>), PyStr(<<"state">>) }

ArtifactValues ==
    { ArtifactOf(<<>>), ArtifactOf(<< TextPart(<<"a">>) >>), [artifactId |-> "a1"],
      PyInt, PyNone, PyStr(<<"a">>), PyStr(<<"parts">>) }

ValidatorPayloads ==
    { k @@ i @@ st @@ a @@ pl @@ r :
        k \in Opt("kind", KindValues),
        i \in Opt("id", { "t1" }),
        st \in Opt("status", StatusValues),
        a \in Opt("artifact", ArtifactValues),
        pl \in Opt("parts", { <<>>, << TextPart(<<"a">>) >> }),
        r \in Opt("role", { "agent", "user" }) }


-----------------------------------------------------------------------------
(* The session bridge: src/backend/app.py, lines 210-315 *)

\* AgentCard.capabilities as fetched: `streaming` is Optional[bool]
Capabilities == { [streaming |-> "True"], [streaming |-> "False"], [streaming |-> "None"] }
Cards == { [capabilities |-> c] : c \in Capabilities }

\* the envelopes the remote answers with in the bridge runs
BridgeEnvelopes ==
    { [error |-> [code |-> "-32000"]],
      [result |-> MessageOf("user", <<>>)] }

\* str(e) of an exception raised by the fetch or by the remote call
ExcText == <<"exc">>

\* str(uuid4()) drawn while the n-th handler runs
Uuid(n) == "uuid-" \o ToString(n)

\* ids the UI may send with a message; NoId: the event carries no 'id'
NoId == "<no id>"
GivenIds == { "c1", NoId }

TaskIds == 1..Len(tasks)
HandleIds == 1..Len(handles)

IsClosed(h) == handles[h].closes > 0

\* a handler coroutine: its arguments, its locals, where it is suspended ("done":
\* it has returned), and for the record what it received and emitted so far and
\* whether the sid's disconnect handler had run when it started
NewTask(handler, sid, given, message_id, h, streaming, pc, events) ==
    [handler |-> handler, sid |-> sid, given |-> given, message_id |-> message_id,
     h |-> h, streaming |-> streaming, pc |-> pc,
     results |-> <<>>, emitted |-> events, after_disconnect |-> terminated[sid]]

\* the results delivered so far to the handlers 1..n
RECURSIVE Delivered(_)
Delivered(n) == IF n = 0 THEN 0 ELSE Len(tasks[n].results) + Delivered(n - 1)

CanStart == Len(tasks) < MaxEvents
CanDeliver == Delivered(Len(tasks)) < MaxResults

\* handler t emits `events` and goes on to `pc`
Continue(t, events, pc) ==
    tasks' = [tasks EXCEPT ![t].emitted = @ \o events, ![t].pc = pc]

\* handler t resumes with `result`, emits `events` and goes on to `pc`
Resume(t, result, events, pc) ==
    tasks' = [tasks EXCEPT ![t].results = Append(@, result),
                           ![t].emitted = @ \o events, ![t].pc = pc]

\* handle_initialize_client, lines 226-233: no url
InitializeNoUrl(sid) ==
    /\ CanStart
    /\ tasks' = Append(tasks,
           NewTask("initialize_client", sid, NoId, NoId, 0, FALSE, "done",
                   << Emit("client_initialized", sid,
                           [status |-> "error",
                            message |-> <<"Agent URL is required.">>]) >>))
    /\ UNCHANGED <<clients, handles, calls, terminated>>

\* handle_initialize_client, lines 234-237: the client is created and the fetch awaited
InitializeStart(sid) ==
    /\ CanStart
    /\ handles' = Append(handles, [owner |-> sid, closes |-> 0])
    /\ tasks' = Append(tasks,
           NewTask("initialize_client", sid, NoId, NoId, Len(handles) + 1, FALSE,
                   "fetch", <<>>))
    /\ UNCHANGED <<clients, calls, terminated>>

\* clients[sid] = (httpx_client, a2a_client, card), line 239
StoreSession(sid, h, card) ==
    (sid :> [httpx_client |-> h, a2a_client |-> h, card |-> card]) @@ clients

\* handle_initialize_client, lines 237-240: the fetch returns a card
FetchReturns(t, card) ==
    /\ tasks[t].pc = "fetch"
    /\ clients' = StoreSession(tasks[t].sid, tasks[t].h, card)
    /\ Continue(t, << Emit("client_initialized", tasks[t].sid, [status |-> "success"]) >>,
                "done")
    /\ UNCHANGED <<handles, calls, terminated>>

\* handle_initialize_client, lines 241-247: the fetch raises
FetchRaises(t) ==
    /\ tasks[t].pc = "fetch"
    /\ Continue(t, << Emit("client_initialized", tasks[t].sid,
                           [status |-> "error", message |-> ExcText]) >>,
                "done")
    /\ UNCHANGED <<clients, handles, calls, terminated>>

\* variant refuted by C4: the id of the event is ignored
MessageIdAlwaysFresh(given, n) == Uuid(n)

\* json_data.get('id', str(uuid4())), line 253
MessageId(given, n) == IF given = NoId THEN Uuid(n) ELSE given

\* the response of lines 255-259
NotInitialized(sid, message_id) ==
    << Emit("agent_response", sid,
            [error |-> <<"Client not initialized.">>, id |-> message_id]) >>

\* handle_send_message, lines 252-260: the sid holds no session
SendNotInitialized(sid, given) ==
    /\ CanStart
    /\ sid \notin DOMAIN clients
    /\ LET message_id == MessageId(given, Len(tasks) + 1)
       IN  tasks' = Append(tasks,
               NewTask("send_message", sid, given, message_id, 0, FALSE, "done",
                       NotInitialized(sid, message_id)))
    /\ UNCHANGED <<clients, handles, calls, terminated>>

\* variant refuted by C5: only the presence of the flag is tested
SupportsStreamingIfPresent(card) == Has(card.capabilities, "streaming")

\* lines 273-276
SupportsStreaming(card) ==
    Has(card.capabilities, "streaming") /\ card.capabilities.streaming = "True"

Method(streaming) == IF streaming THEN "message/stream" ELSE "message/send"

\* the request dumped at lines 289 and 305
RequestDump(message_id, method) ==
    [id |-> message_id, method |-> method, jsonrpc |-> "2.0"]

\* handle_send_message, lines 252-307: up to the await of the remote call
SendStart(sid, given) ==
    /\ CanStart
    /\ sid \in DOMAIN clients
    /\ LET t == Len(tasks) + 1
           message_id == MessageId(given, t)
           a2a_client == clients[sid].a2a_client
           supports_streaming == SupportsStreaming(clients[sid].card)
           method == Method(supports_streaming)
           request_log == << _emit_debug_log(sid, message_id, "request",
                                             RequestDump(message_id, method)) >>
       IN  /\ tasks' = Append(tasks,
                  NewTask("send_message", sid, given, message_id, a2a_client,
                          supports_streaming,
                          IF supports_streaming THEN "stream" ELSE "unary",
                          request_log))
           /\ calls' = Append(calls, [task |-> t, h |-> a2a_client, method |-> method,
                                      card |-> clients[sid].card,
                                      closed |-> IsClosed(a2a_client),
                                      after_events |-> Len(request_log)])
    /\ UNCHANGED <<clients, handles, terminated>>

\* the except branch of handle_send_message, lines 309-315
SendFailed(sid, message_id) ==
    << Emit("agent_response", sid,
            [error |-> <<"Failed to send message: ">> \o ExcText, id |-> message_id]) >>

\* lines 307-308: the unary call returns
UnaryReturns(t, result) ==
    /\ tasks[t].pc = "unary"
    /\ CanDeliver
    /\ Resume(t, result,
              _process_a2a_response(result, tasks[t].sid, tasks[t].message_id), "done")
    /\ UNCHANGED <<clients, handles, calls, terminated>>

\* variant refuted by C19: a call that raises ends the session
UnaryRaisesDropsSession(t) ==
    /\ tasks[t].pc = "unary"
    /\ Continue(t, SendFailed(tasks[t].sid, tasks[t].message_id), "done")
    /\ clients' = [s \in DOMAIN clients \ {tasks[t].sid} |-> clients[s]]
    /\ handles' = [handles EXCEPT ![tasks[t].h].closes = @ + 1]
    /\ UNCHANGED <<calls, terminated>>

\* lines 307, 309-315: the unary call raises
UnaryRaises(t) ==
    /\ tasks[t].pc = "unary"
    /\ Continue(t, SendFailed(tasks[t].sid, tasks[t].message_id), "done")
    /\ UNCHANGED <<clients, handles, calls, terminated>>

\* lines 292-293: the stream delivers an item
StreamItem(t, result) ==
    /\ tasks[t].pc = "stream"
    /\ CanDeliver
    /\ Resume(t, result,
              _process_a2a_response(result, tasks[t].sid, tasks[t].message_id), "stream")
    /\ UNCHANGED <<clients, handles, calls, terminated>>

\* line 292: the stream ends
StreamEnds(t) ==
    /\ tasks[t].pc = "stream"
    /\ Continue(t, <<>>, "done")
    /\ UNCHANGED <<clients, handles, calls, terminated>>

\* lines 292, 309-315: the stream raises
StreamRaises(t) ==
    /\ tasks[t].pc = "stream"
    /\ Continue(t, SendFailed(tasks[t].sid, tasks[t].message_id), "done")
    /\ UNCHANGED <<clients, handles, calls, terminated>>

\* variant refuted by C1: the entry is read and left in the table
PopKeepsEntry(sid) == clients

\* clients.pop(sid), line 219
Pop(sid) == [s \in DOMAIN clients \ {sid} |-> clients[s]]

\* httpx_client.aclose(), line 220
Close(h) == [handles EXCEPT ![h].closes = @ + 1]

\* handle_disconnect, lines 216-221, the sid holds a session
DisconnectSession(sid) ==
    /\ ~terminated[sid]
    /\ sid \in DOMAIN clients
    /\ clients' = Pop(sid)
    /\ handles' = Close(clients[sid].httpx_client)
    /\ terminated' = [terminated EXCEPT ![sid] = TRUE]
    /\ UNCHANGED <<tasks, calls>>

\* handle_disconnect, lines 216-218, the sid holds none
DisconnectIdle(sid) ==
    /\ ~terminated[sid]
    /\ sid \notin DOMAIN clients
    /\ terminated' = [terminated EXCEPT ![sid] = TRUE]
    /\ UNCHANGED <<clients, handles, tasks, calls>>

-----------------------------------------------------------------------------
(* Specifications *)

InitBridge ==
    /\ clients = EmptyDict
    /\ handles = <<>>
    /\ tasks = <<>>
    /\ calls = <<>>
    /\ terminated = [s \in Sids |-> FALSE]

\* nothing is being validated
InitNoValidation ==
    /\ vfun = "validate_message"
    /\ vdata = EmptyDict
    /\ vout = NotCalled

Init ==
    /\ InitBridge
    /\ penv = [error |-> [code |-> "-32000"]]
    /\ preq = "c1"
    /\ pout = <<>>
    /\ InitNoValidation

Next ==
    \/ \E sid \in Sids : InitializeNoUrl(sid) /\ UNCHANGED <<processVars, validateVars>>
    \/ \E sid \in Sids : InitializeStart(sid) /\ UNCHANGED <<processVars, validateVars>>
    \/ \E t \in TaskIds, card \in Cards : FetchReturns(t, card) /\ UNCHANGED <<processVars, validateVars>>
    \/ \E t \in TaskIds : FetchRaises(t) /\ UNCHANGED <<processVars, validateVars>>
    \/ \E sid \in Sids, given \in GivenIds : SendNotInitialized(sid, given) /\ UNCHANGED <<processVars, validateVars>>
    \/ \E sid \in Sids, given \in GivenIds : SendStart(sid, given) /\ UNCHANGED <<processVars, validateVars>>
    \/ \E t \in TaskIds, result \in BridgeEnvelopes : UnaryReturns(t, result) /\ UNCHANGED <<processVars, validateVars>>
    \/ \E t \in TaskIds : UnaryRaises(t) /\ UNCHANGED <<processVars, validateVars>>
    \/ \E t \in TaskIds, result \in BridgeEnvelopes : StreamItem(t, result) /\ UNCHANGED <<processVars, validateVars>>
    \/ \E t \in TaskIds : StreamEnds(t) /\ UNCHANGED <<processVars, validateVars>>
    \/ \E t \in TaskIds : StreamRaises(t) /\ UNCHANGED <<processVars, validateVars>>
    \/ \E sid \in Sids : DisconnectSession(sid) /\ UNCHANGED <<processVars, validateVars>>
    \/ \E sid \in Sids : DisconnectIdle(sid) /\ UNCHANGED <<processVars, validateVars>>

Spec == Init /\ [][Next]_vars

\* response processing alone: one envelope, processed once
InitProcess ==
    /\ InitBridge
    /\ penv \in Envelopes
    /\ preq \in RequestIds
    /\ pout = <<>>
    /\ InitNoValidation

Process ==
    /\ pout = <<>>
    /\ pout' = _process_a2a_response(penv, "s1", preq)
    /\ UNCHANGED <<penv, preq>>
    /\ UNCHANGED <<bridgeVars, validateVars>>

NextProcess == Process

SpecProcess == InitProcess /\ [][NextProcess]_vars

\* validation alone: one payload, handed once to one validator
InitValidate ==
    /\ InitBridge
    /\ penv = [error |-> [code |-> "-32000"]]
    /\ preq = "c1"
    /\ pout = <<>>
    /\ \/ vfun = "validate_agent_card" /\ vdata \in CardDatas
       \/ vfun = "validate_message" /\ vdata \in ValidatorPayloads
    /\ vout = NotCalled

ValidateCard ==
    /\ vfun = "validate_agent_card" /\ vout = NotCalled
    /\ vout' = validate_agent_card(vdata)
    /\ UNCHANGED <<vfun, vdata, bridgeVars, processVars>>

ValidateMessage ==
    /\ vfun = "validate_message" /\ vout = NotCalled
    /\ vout' = validate_message(vdata)
    /\ UNCHANGED <<vfun, vdata, bridgeVars, processVars>>

NextValidate == ValidateCard \/ ValidateMessage

SpecValidate == InitValidate /\ [][NextValidate]_vars


-----------------------------------------------------------------------------
(* Reading the record *)

IsAgentResponse(e) == e.event = "agent_response"
AgentResponses(events) == SelectSeq(events, IsAgentResponse)

IsInitialize(t) == tasks[t].handler = "initialize_client"
IsSend(t) == tasks[t].handler = "send_message"

\* a send_message handler that found a session and dispatched
Dispatched(t) == IsSend(t) /\ tasks[t].h # 0

CallsOf(t) == { i \in DOMAIN calls : calls[i].task = t }

\* an initialize handler whose fetch returned, so that its client was stored
StoredBy(t) ==
    /\ IsInitialize(t) /\ tasks[t].pc = "done" /\ tasks[t].h # 0
    /\ tasks[t].emitted[1].body.status = "success"

\* the step starts a new handler
Starts == Len(tasks') = Len(tasks) + 1
Started == tasks'[Len(tasks')]

-----------------------------------------------------------------------------
(* C1 *)

\* the disconnect handler runs for a sid that holds a session: the entry is gone
\* and the session's client, never closed before, is closed
C1_DisconnectStep ==
    \A sid \in Sids :
        (~terminated[sid] /\ terminated'[sid] /\ sid \in DOMAIN clients) =>
            LET h == clients[sid].httpx_client
            IN  /\ sid \notin DOMAIN clients'
                /\ handles[h].closes = 0
                /\ handles'[h].closes = 1

\* a send_message that starts after the disconnect, the sid holding no session
C1_SendStep ==
    (/\ Starts
     /\ Started.handler = "send_message"
     /\ terminated[Started.sid]
     /\ Started.sid \notin DOMAIN clients) =>
        /\ Started.pc = "done"
        /\ Len(Started.emitted) = 1
        /\ Started.emitted[1].event = "agent_response"
        /\ Started.emitted[1].to = Started.sid
        /\ Started.emitted[1].body.error = <<"Client not initialized.">>
        /\ calls' = calls

C1_NoStaleHandle ==
    /\ \A h \in HandleIds : handles[h].closes <= 1
    /\ \A sid \in DOMAIN clients : ~IsClosed(clients[sid].httpx_client)
    /\ \A i \in DOMAIN calls : ~calls[i].closed

-----------------------------------------------------------------------------
(* C2 *)

\* the clients of a sid that were stored in the table and are not closed
OpenStored(sid) ==
    { h \in HandleIds :
        /\ handles[h].owner = sid
        /\ ~IsClosed(h)
        /\ \E t \in TaskIds : StoredBy(t) /\ tasks[t].h = h }

\* C2: a successful initialize closes the client of the session it replaces, so a
\* sid never has more than one stored client that is not closed.
C2_PriorHandleClosed == \A sid \in Sids : Cardinality(OpenStored(sid)) <= 1

-----------------------------------------------------------------------------
(* C3 *)

\* C3: every send_message handler that has returned emitted at least one
\* agent_response.
C3_EveryCycleResponds ==
    \A t \in TaskIds :
        (IsSend(t) /\ tasks[t].pc = "done") => Len(AgentResponses(tasks[t].emitted)) >= 1

-----------------------------------------------------------------------------
(* C4 *)

\* the id of the request handler t serves: the one the event carried, else the one
\* drawn for it
RequestIdOf(t) == IF tasks[t].given = NoId THEN Uuid(t) ELSE tasks[t].given

IsFailureReport(e) == IsAgentResponse(e) /\ Has(e.body, "error")

\* C4: every agent_response of a send_message handler that reports a failure
\* carries the id of that handler's request.
C4_FailuresCarryRequestId ==
    \A t \in TaskIds :
        IsSend(t) =>
            \A i \in DOMAIN tasks[t].emitted :
                IsFailureReport(tasks[t].emitted[i]) =>
                    /\ Has(tasks[t].emitted[i].body, "id")
                    /\ tasks[t].emitted[i].body.id = RequestIdOf(t)

\* an error envelope reported under a supplied id and an exception under a generated one
C4_Witness ==
    /\ \E t \in TaskIds :
        /\ Dispatched(t) /\ tasks[t].given # NoId /\ tasks[t].pc = "done"
        /\ Len(tasks[t].results) = 1 /\ IsErrorEnvelope(tasks[t].results[1])
    /\ \E t \in TaskIds :
        /\ Dispatched(t) /\ tasks[t].given = NoId /\ tasks[t].pc = "done"
        /\ tasks[t].results = <<>>
        /\ IsFailureReport(tasks[t].emitted[Len(tasks[t].emitted)])

-----------------------------------------------------------------------------
(* C5 *)

\* the card declares streaming as true
DeclaresStreaming(card) ==
    Has(card.capabilities, "streaming") /\ card.capabilities.streaming = "True"

\* C5: a send_message that finds a session issues exactly one remote call: a
\* streaming call when the session's card declares streaming as true, a unary
\* call for any other card; and a unary dispatch emits exactly one
\* agent_response, when it returns.
C5_DispatchFollowsFlag ==
    \A t \in TaskIds :
        Dispatched(t) =>
            /\ Cardinality(CallsOf(t)) = 1
            /\ \A i \in CallsOf(t) :
                /\ calls[i].method =
                     (IF DeclaresStreaming(calls[i].card)
                        THEN "message/stream" ELSE "message/send")
                /\ calls[i].method = "message/send" =>
                     Len(AgentResponses(tasks[t].emitted)) =
                        (IF tasks[t].pc = "done" THEN 1 ELSE 0)

\* a unary dispatch for a card whose flag is None has returned with its one
\* agent_response
C5_Witness ==
    \E i \in DOMAIN calls :
        /\ calls[i].card.capabilities.streaming = "None"
        /\ calls[i].method = "message/send"
        /\ tasks[calls[i].task].pc = "done"
        /\ Len(AgentResponses(tasks[calls[i].task].emitted)) = 1

-----------------------------------------------------------------------------
(* C6 *)

\* the report of the except branch, which answers no item
IsDispatchFailure(e) ==
    IsFailureReport(e) /\ Head(e.body.error) = "Failed to send message: "

IsItemResponse(e) == IsAgentResponse(e) /\ ~IsDispatchFailure(e)
ItemResponses(events) == SelectSeq(events, IsItemResponse)

\* the agent_response answers the item: an error report for an error envelope,
\* the payload of the same kind for a result
Answers(e, result) ==
    IF IsErrorEnvelope(result)
        THEN Has(e.body, "error")
        ELSE /\ ~Has(e.body, "error")
             /\ Has(e.body, "kind") /\ e.body.kind = result.result.kind

\* C6: a streaming dispatch has emitted one agent_response per item received, the
\* k-th response answering the k-th item.
C6_OneResponsePerItemInOrder ==
    \A t \in TaskIds :
        (Dispatched(t) /\ tasks[t].streaming) =>
            LET answers == ItemResponses(tasks[t].emitted)
            IN  /\ Len(answers) = Len(tasks[t].results)
                /\ \A k \in DOMAIN answers : Answers(answers[k], tasks[t].results[k])

\* a stream that delivered an error envelope and then a result
C6_Witness ==
    \E t \in TaskIds :
        /\ Dispatched(t) /\ tasks[t].streaming
        /\ Len(tasks[t].results) = 2
        /\ IsErrorEnvelope(tasks[t].results[1])
        /\ ~IsErrorEnvelope(tasks[t].results[2])

-----------------------------------------------------------------------------
(* C8 *)

\* the step in which the fetch of initialize handler t raises
FetchFailsIn(t) ==
    /\ t \in TaskIds /\ IsInitialize(t)
    /\ tasks[t].pc = "fetch" /\ tasks'[t].pc = "done"
    /\ tasks'[t].emitted[Len(tasks'[t].emitted)].body.status = "error"

\* C8: when the fetch of an initialize raises, the handler has emitted exactly one
\* client_initialized event, with status 'error', and the sid holds no session.
C8_FailedFetchLeavesNoSession ==
    [][\A t \in TaskIds :
         FetchFailsIn(t) =>
            /\ Len(tasks'[t].emitted) = 1
            /\ tasks'[t].emitted[1].event = "client_initialized"
            /\ tasks[t].sid \notin DOMAIN clients']_vars

-----------------------------------------------------------------------------
(* Response processing alone: C7, C9, C10 *)

Processed == pout # <<>>

\* the body of the agent_response that was emitted
Answer == pout[Len(pout)].body

\* the final message the answer shows, NoneText when it shows none
FinalShown == IF Has(Answer, "final_message") THEN Answer.final_message ELSE NoneText

IsResult == ~IsErrorEnvelope(penv)

\* C7: an error envelope is answered by an 'error' debug log and an agent_response
\* whose error is the error's message, 'Unknown error' when it has none, and that
\* carries neither validation_errors nor final_message.
C7_ErrorEnvelope ==
    (Processed /\ IsErrorEnvelope(penv)) =>
        /\ Len(pout) = 2
        /\ pout[1].event = "debug_log" /\ pout[1].body.type = "error"
        /\ pout[1].body.data = penv.error
        /\ pout[2].event = "agent_response"
        /\ Has(Answer, "error")
        /\ Answer.error = (IF Has(penv.error, "message")
                             THEN penv.error.message ELSE <<"Unknown error">>)
        /\ ~Has(Answer, "validation_errors")
        /\ ~Has(Answer, "final_message")

C7_Witness == Processed /\ IsErrorEnvelope(penv) /\ ~Has(penv.error, "message")

\* status.state is 'failed'
HasFailedStatus(payload) ==
    /\ Has(payload, "status") /\ Has(payload.status, "state")
    /\ payload.status.state = "failed"

\* status.message.parts[0].text exists
HasFailedText(payload) ==
    /\ Has(payload.status, "message") /\ Has(payload.status.message, "parts")
    /\ payload.status.message.parts # <<>>
    /\ Has(payload.status.message.parts[1], "text")

FailedText(payload) == payload.status.message.parts[1].text

\* C9 as claimed: for a failed status the final message is
\* status.message.parts[0].text when that path is present, and the fixed string
\* otherwise (an empty text may be shown as no final message).
C9_FailedStatusDecides ==
    (Processed /\ IsResult /\ HasFailedStatus(penv.result)) =>
        LET claimed == IF HasFailedText(penv.result)
                         THEN FailedText(penv.result) ELSE FailedFallback
        IN  \/ FinalShown = claimed
            \/ claimed = <<>> /\ FinalShown = NoneText

\* C9 as amended: for a failed status the final message is
\* status.message.parts[0].text when that path is present and the text is not
\* empty, and the fixed string when the path is absent, whatever the artifacts and
\* the history hold; an empty text does not decide.
C9_FailedStatusDecidesNonEmpty ==
    (Processed /\ IsResult /\ HasFailedStatus(penv.result)) =>
        /\ (HasFailedText(penv.result) /\ FailedText(penv.result) # <<>>) =>
              FinalShown = FailedText(penv.result)
        /\ ~HasFailedText(penv.result) => FinalShown = FailedFallback

\* the first artifact's first part has a text that is not empty
HasArtifactText(payload) ==
    /\ Has(payload, "artifacts") /\ payload.artifacts # <<>>
    /\ Has(payload.artifacts[1], "parts") /\ payload.artifacts[1].parts # <<>>
    /\ Has(payload.artifacts[1].parts[1], "text")
    /\ payload.artifacts[1].parts[1].text # <<>>

HasBoldAgentEntry(payload) ==
    /\ Has(payload, "history")
    /\ \E k \in DOMAIN payload.history :
        /\ payload.history[k].role = "agent"
        /\ payload.history[k].parts # <<>>
        /\ Has(payload.history[k].parts[1], "text")
        /\ HasBold(payload.history[k].parts[1].text)

\* a failed status with a text, beside an artifact text and a bold history entry
C9_Witness ==
    /\ Processed /\ IsResult /\ HasFailedStatus(penv.result)
    /\ HasFailedText(penv.result) /\ FailedText(penv.result) = <<"a">>
    /\ HasArtifactText(penv.result) /\ HasBoldAgentEntry(penv.result)
    /\ FinalShown = <<"a">>

\* C10: for a task without a failed status whose first artifact's first part has
\* a non-empty text, the final message is that text, whatever the history holds.
C10_ArtifactDecides ==
    (/\ Processed /\ IsResult
     /\ penv.result.kind = "task"
     /\ ~HasFailedStatus(penv.result)
     /\ HasArtifactText(penv.result)) =>
        FinalShown = penv.result.artifacts[1].parts[1].text

\* an artifact text beside a bold agent entry in the history
C10_Witness ==
    /\ Processed /\ IsResult /\ penv.result.kind = "task"
    /\ ~HasFailedStatus(penv.result)
    /\ HasArtifactText(penv.result) /\ HasBoldAgentEntry(penv.result)
    /\ FinalShown = <<"a">>

-----------------------------------------------------------------------------
(* C11 *)

\* a history entry of role 'agent' whose first part is of kind 'text'
IsAgentTextEntry(entry) ==
    /\ Has(entry, "role") /\ entry.role = "agent"
    /\ Has(entry, "parts") /\ entry.parts # <<>>
    /\ Has(entry.parts[1], "kind") /\ entry.parts[1].kind = "text"

\* the text of such an entry, empty when the part holds none
AgentEntryText(entry) ==
    IF Has(entry.parts[1], "text") THEN entry.parts[1].text ELSE <<>>

\* the positions of the history whose entry is an agent text containing '**'
BoldEntries(history) ==
    { k \in DOMAIN history :
        IsAgentTextEntry(history[k]) /\ HasBold(AgentEntryText(history[k])) }

\* the positions of the history whose entry is an agent text that is not empty
TextEntries(history) ==
    { k \in DOMAIN history :
        IsAgentTextEntry(history[k]) /\ AgentEntryText(history[k]) # <<>> }

Latest(positions) == CHOOSE k \in positions : \A j \in positions : j <= k

\* a task without a failed status and without an artifact text, with a history
HistoryDecides ==
    /\ Processed /\ IsResult
    /\ penv.result.kind = "task"
    /\ ~HasFailedStatus(penv.result)
    /\ ~HasArtifactText(penv.result)
    /\ Has(penv.result, "history")

\* C11: for a task without a failed status and without an artifact text, the
\* final message is the text of the latest agent entry of the history that
\* contains '**', also when a later agent entry holds a plain text; when no
\* entry contains '**' it is the latest agent text that is not empty.
C11_BoldEntryBeforeLatest ==
    HistoryDecides =>
        LET history == penv.result.history
        IN  /\ BoldEntries(history) # {} =>
                FinalShown = AgentEntryText(history[Latest(BoldEntries(history))])
            /\ (BoldEntries(history) = {} /\ TextEntries(history) # {}) =>
                FinalShown = AgentEntryText(history[Latest(TextEntries(history))])

\* a bold agent entry followed by a plain agent entry: the bold one is shown
C11_Witness ==
    /\ HistoryDecides
    /\ Len(penv.result.history) = 2
    /\ BoldEntries(penv.result.history) = {1}
    /\ TextEntries(penv.result.history) = {1, 2}
    /\ FinalShown = AgentEntryText(penv.result.history[1])

-----------------------------------------------------------------------------
(* Validation alone: C12, C14, C15 *)

Validated == vout # NotCalled

Raised == vout \in { TypeError, AttributeError }

\* C12: a validator never raises: what a call produces is a list of defects.
C12_ValidatorsNeverRaise == Validated => ~Raised

\* the number of times `defect` is in the list
Count(defects, defect) == Cardinality({ i \in DOMAIN defects : defects[i] = defect })

\* the eight fields the claim names
EightFields ==
    { "name", "description", "url", "version", "capabilities",
      "defaultInputModes", "defaultOutputModes", "skills" }

MissingDefect(field) == "Required field is missing: '" \o field \o "'."

-----------------------------------------------------------------------------
(* C13 *)

\* C13: a success envelope is answered by exactly one agent_response, which holds
\* every field of the result payload and a validation_errors list, and is no
\* error report, whatever the number of defects in the list.
C13_DefectsDoNotSuppress ==
    (Processed /\ IsResult) =>
        /\ Len(AgentResponses(pout)) = 1
        /\ ~Has(Answer, "error")
        /\ \A k \in DOMAIN penv.result : Has(Answer, k) /\ Answer[k] = penv.result[k]
        /\ Has(Answer, "validation_errors")
        /\ Answer.validation_errors = <<>> <=>
              ~ \/ Answer.kind = "message" /\ (Answer.parts = <<>> \/ Answer.role # "agent")
                \/ Answer.kind = "artifact-update" /\ Answer.artifact.parts = <<>>

\* a message with two defects was answered with the payload and both defects
C13_Witness ==
    /\ Processed /\ IsResult
    /\ penv.result.kind = "message" /\ penv.result.role = "user" /\ penv.result.parts = <<>>
    /\ Has(Answer, "validation_errors") /\ Len(Answer.validation_errors) = 2
    /\ Answer.role = "user"

-----------------------------------------------------------------------------
(* C16 *)

\* the step in which initialize handler t, suspended on its fetch while the
\* disconnect of its sid ran, returns, no other handler of the sid being left
ResumesAfterDisconnect(t) ==
    /\ t \in TaskIds /\ IsInitialize(t)
    /\ ~tasks[t].after_disconnect /\ terminated[tasks[t].sid]
    /\ tasks[t].pc = "fetch" /\ tasks'[t].pc = "done"
    /\ \A u \in TaskIds \ {t} : tasks[u].sid = tasks[t].sid => tasks[u].pc = "done"

\* C16: when an initialize that was suspended on its fetch while the disconnect
\* of its sid ran has completed, the sid holds no session and every client
\* created for it is closed.
C16_TerminatedStaysEmpty ==
    [][\A t \in TaskIds :
         ResumesAfterDisconnect(t) =>
            /\ tasks[t].sid \notin DOMAIN clients'
            /\ \A h \in HandleIds :
                handles[h].owner = tasks[t].sid => handles'[h].closes > 0]_vars

-----------------------------------------------------------------------------
(* C17 *)

\* C17: no send_message handler of a sid is started while an earlier one of the
\* same sid has not completed its dispatch cycle.
C17_SendsAreSerial ==
    \A t1, t2 \in TaskIds :
        (/\ t1 < t2
         /\ IsSend(t1) /\ IsSend(t2)
         /\ tasks[t1].sid = tasks[t2].sid) => tasks[t1].pc = "done"

-----------------------------------------------------------------------------
(* C18 *)

IsDebugLog(e, type) == e.event = "debug_log" /\ e.body.type = type

\* C18: in a dispatch cycle the 'request' debug log, carrying the envelope of the
\* call, is the first event and is emitted before the call is issued, and every
\* agent_response that answers a response directly follows the 'error' or
\* 'response' debug log of that response.
C18_LogsPrecede ==
    \A t \in TaskIds :
        Dispatched(t) =>
            LET e == tasks[t].emitted
            IN  /\ e # <<>>
                /\ IsDebugLog(e[1], "request")
                /\ e[1].body.id = RequestIdOf(t)
                /\ \A i \in CallsOf(t) :
                    /\ calls[i].after_events = 1
                    /\ e[1].body.data.method = calls[i].method
                    /\ e[1].body.data.id = RequestIdOf(t)
                /\ \A i \in DOMAIN e :
                    IsItemResponse(e[i]) =>
                        /\ i > 1
                        /\ e[i - 1].body.id = e[i].body.id
                        /\ IF Has(e[i].body, "error")
                             THEN /\ IsDebugLog(e[i - 1], "error")
                                  /\ e[i].body.error =
                                       Get(e[i - 1].body.data, "message", <<"Unknown error">>)
                             ELSE /\ IsDebugLog(e[i - 1], "response")
                                  /\ e[i - 1].body.data = e[i].body

\* a stream that delivered a result and then an error envelope: five events
C18_Witness ==
    \E t \in TaskIds :
        /\ Dispatched(t) /\ tasks[t].streaming
        /\ Len(tasks[t].emitted) = 5
        /\ IsDebugLog(tasks[t].emitted[2], "response")
        /\ IsDebugLog(tasks[t].emitted[4], "error")
        /\ IsAgentResponse(tasks[t].emitted[5])

-----------------------------------------------------------------------------
(* C19 *)

\* the step is one of a send_message handler: it starts, or it goes on
SendHandlerStep ==
    \/ Starts /\ Started.handler = "send_message"
    \/ \E t \in TaskIds : IsSend(t) /\ tasks'[t] # tasks[t]

\* C19: no step of a send_message handler, whatever its outcome, changes the
\* session table or closes a client.
C19_SendLeavesStore ==
    [][SendHandlerStep => (clients' = clients /\ handles' = handles)]_vars

\* after a send_message that ended in an exception the sid holds the same open
\* client, and a later send_message was dispatched on it
C19_Witness ==
    \E t1, t2 \in TaskIds :
        /\ t1 < t2 /\ Dispatched(t1) /\ Dispatched(t2)
        /\ tasks[t1].pc = "done" /\ tasks[t1].results = <<>>
        /\ IsFailureReport(tasks[t1].emitted[Len(tasks[t1].emitted)])
        /\ tasks[t2].h = tasks[t1].h
        /\ tasks[t1].sid \in DOMAIN clients
        /\ clients[tasks[t1].sid].httpx_client = tasks[t1].h
        /\ ~IsClosed(tasks[t1].h)
        /\ \A i \in CallsOf(t2) : ~calls[i].closed

-----------------------------------------------------------------------------
(* C21 *)

\* the id the claim gives the response: the result's own, else the request's
ClaimedResponseId ==
    IF Has(penv.result, "id") THEN penv.result.id ELSE preq

\* C21: for a success envelope the 'response' debug log and the agent_response
\* carry the id of the result payload when it has one, and the id of the request
\* when it has none.
C21_ResultIdTakesPrecedence ==
    (Processed /\ IsResult) =>
        /\ Len(pout) = 2
        /\ IsDebugLog(pout[1], "response")
        /\ pout[1].body.id = ClaimedResponseId
        /\ pout[1].body.data.id = ClaimedResponseId
        /\ IsAgentResponse(pout[2])
        /\ Has(Answer, "id") /\ Answer.id = ClaimedResponseId

\* a task with an id of its own, other than the request's, was answered under it
C21_Witness ==
    /\ Processed /\ IsResult
    /\ Has(penv.result, "id") /\ penv.result.id # preq
    /\ pout[1].body.id = penv.result.id
    /\ Answer.id = penv.result.id

-----------------------------------------------------------------------------
(* C22 *)

MissingIdDefect == "Task object missing required field: 'id'."

\* C22: the payload of every answered success envelope holds an 'id', and its
\* validation_errors never hold the task defect for a missing 'id', also for a
\* task result that came without an id.
C22_IdNeverMissing ==
    (Processed /\ IsResult) =>
        /\ Has(Answer, "id")
        /\ Has(Answer, "validation_errors")
        /\ Count(Answer.validation_errors, MissingIdDefect) = 0

\* a task result without an id was answered under the id of the request, with no
\* defect
C22_Witness ==
    /\ Processed /\ IsResult
    /\ penv.result.kind = "task" /\ ~Has(penv.result, "id")
    /\ Answer.id = preq
    /\ Answer.validation_errors = <<>>

-----------------------------------------------------------------------------
(* C23 *)

\* the step in which initialize handler t, which created a client, returns
InitializeReturns(t) ==
    /\ t \in TaskIds /\ IsInitialize(t) /\ tasks[t].h # 0
    /\ tasks[t].pc = "fetch" /\ tasks'[t].pc = "done"

\* C23: when an initialize handler returns, the client it created is the one
\* stored for its sid, or is closed.
C23_CreatedHandleStoredOrClosed ==
    [][\A t \in TaskIds :
         InitializeReturns(t) =>
            \/ /\ tasks[t].sid \in DOMAIN clients'
               /\ clients'[tasks[t].sid].httpx_client = tasks[t].h
            \/ handles'[tasks[t].h].closes > 0]_vars

=============================================================================
